---- MODULE Spec2Model ----
(***************************************************************************)
(* A model of the g4 suitor (src/suitors/g4.py): the round scheduler, the  *)
(* controlled experiments of the training rounds, the feedback aggregator, *)
(* the final-round selector and the self-scoring functions.                *)
(*                                                                         *)
(* A flower is a triple <<color, type, size>> of enum values (0-based, as  *)
(* FlowerColors(i), FlowerTypes(i), FlowerSizes(i) are used in the code).  *)
(* A Python dict is a function whose DOMAIN is the dict's key set; a       *)
(* Bouquet is its arrangement dict.  The (6, 4, 3) numpy table is a total  *)
(* function on Flowers.                                                    *)
(***************************************************************************)
EXTENDS Integers, Sequences, FiniteSets, TLC

\* ---------------------------------------------------------------- bounds
\* days: total_turns ranges over 0..MaxTurns
MaxTurns == 4
\* num_suitors ranges over 1..MaxSuitors
MaxSuitors == 3
\* a recipient's score for a bouquet ranges over 0..MaxScore
MaxScore == 1
\* a game sends at most MaxBouquets bouquets: days * (num_suitors - 1)
MaxBouquets == 6
\* prepare_bouquets is called once per round, and at least MinCalls times
\* (a game of zero days is still probed)
MinCalls == 1

\* ------------------------------------------------------- program constants
\* len(FlowerColors), len(FlowerTypes), len(FlowerSizes)
NumColors == 6
NumTypes == 4
NumSizes == 3
\* constants.MAX_BOUQUET_SIZE, scaled down (12 in the game) so that a slice
\* of the inventory larger than the cap stays within small inventories
MAX_BOUQUET_SIZE == 2
\* C_T_S_SPLIT = 1./3 as the fraction SplitNum / SplitDen
SplitNum == 1
SplitDen == 3

Colors == 0 .. (NumColors - 1)
Types == 0 .. (NumTypes - 1)
Sizes == 0 .. (NumSizes - 1)
Flowers == Colors \X Types \X Sizes

None == "None"

\* ---------------------------------------------------------------- helpers
Min(a, b) == IF a <= b THEN a ELSE b

RECURSIVE SumOver(_, _)
\* sum(d[k] for k in S)
SumOver(d, S) ==
    IF S = {} THEN 0
    ELSE LET k == CHOOSE k \in S : TRUE
         IN  d[k] + SumOver(d, S \ {k})

\* sum(d.values())
SumValues(d) == SumOver(d, DOMAIN d)

\* dict(Counter(...)): the keys that occur, with their positive counts
CounterOf(f) == [k \in {k \in DOMAIN f : f[k] > 0} |-> f[k]]

\* Bouquet({})
EmptyBouquet == [k \in {} |-> 0]

\* the number of flowers of category k in bouquet b
CountIn(b, k) == IF k \in DOMAIN b THEN b[k] ELSE 0

\* np.random.choice(flatten_counter(d), size=(size,), replace=False), counted:
\* every sub-multiset of d with size elements
SampleWithoutReplacement(d, size) ==
    LET pos == {k \in DOMAIN d : d[k] > 0}
        top == IF size < 0 THEN 0 ELSE size
    IN  {CounterOf(g) : g \in {h \in [pos -> 0 .. top] :
                                  /\ \A k \in pos : h[k] <= d[k]
                                  /\ SumOver(h, pos) = size}}

\* ------------------------------------------------------ resource tabulator
_tabularize_flowers(flower_counts) ==
    [f \in Flowers |-> IF f \in DOMAIN flower_counts THEN flower_counts[f] ELSE 0]

\* a listing that keeps the cells that hold no flower
ListEveryCell(flower_info) == [f \in Flowers |-> flower_info[f]]

_list_flowers(flower_info) ==
    [f \in {g \in Flowers : flower_info[g] > 0} |-> flower_info[f]]

\* the cells of a table (or the entries of a dict) that are not zero
NonZero(d) == [k \in {k \in DOMAIN d : d[k] # 0} |-> d[k]]

able_to_create_bouquet(flowers, flowercount) ==
    \A flower \in DOMAIN flowers :
        /\ flower \in DOMAIN flowercount
        /\ ~(flowercount[flower] < flowers[flower])

\* ------------------------------------------------------------------ state
VARIABLES
    total_turns,                \* self.total_turns
    remaining_turns,            \* self.remaining_turns
    num_suitors,                \* self.num_suitors
    suitor_id,                  \* self.suitor_id
    control_group_assignments,  \* self.control_group_assignments
    experiments,                \* self.experiments: recipient -> log
    last_bouquet,               \* self.last_bouquet: [is_none, entries]
    feedback,                   \* self.feedback (BaseSuitor), a list
    color_mapping,              \* self.color_mapping
    type_mapping,               \* self.type_mapping
    size_mapping,               \* self.size_mapping
    best_arrangement,           \* self.best_arrangement
    flower_counts,              \* the argument of the last prepare_bouquets call
    result,                     \* what the last call returned (<<>> if it raised)
    inventory_after,            \* the count table as the last call left it
    err,                        \* the exception the last call raised, or None
    calls,                      \* how many times prepare_bouquets was called
    branch,                     \* the branch the last call took
    how,                        \* per returned bouquet, how it was chosen
    awaiting,                   \* whose turn: "prepare" or "feedback"
    scored,                     \* the last self-scoring query and its answer
    phase_log                   \* per call, the branch or experiment phase it took

vars == <<total_turns, remaining_turns, num_suitors, suitor_id,
          control_group_assignments, experiments, last_bouquet, feedback,
          color_mapping, type_mapping, size_mapping, best_arrangement,
          flower_counts, result, inventory_after, err, calls, branch,
          how, awaiting, scored, phase_log>>

\* np.arange(num_suitors)[all_ids != suitor_id], as a list
recipient_ids_of(n, id) ==
    [k \in 1 .. (IF id \in 0 .. (n - 1) THEN n - 1 ELSE n) |->
        IF k - 1 < id \/ id < 0 THEN k - 1 ELSE k]

recipient_ids == recipient_ids_of(num_suitors, suitor_id)

\* the elements of a list
Range(seq) == {seq[k] : k \in DOMAIN seq}

\* an index that ignores x: always the first position
IndexOfFirst(xs, x) == 0

\* list(xs).index(x), 0-based
IndexOf(xs, x) == (CHOOSE k \in DOMAIN xs : xs[k] = x /\ \A j \in 1 .. (k - 1) : xs[j] # x) - 1

\* ------------------------------------------------------ control assignment
_get_combinations(list1, list2) ==
    [k \in 1 .. (Len(list1) * Len(list2)) |->
        <<list1[((k - 1) \div Len(list2)) + 1], list2[((k - 1) % Len(list2)) + 1]>>]

EnumList(n) == [k \in 1 .. n |-> k - 1]

fc_control_options == _get_combinations(EnumList(NumTypes), EnumList(NumSizes))
ft_control_options == _get_combinations(EnumList(NumColors), EnumList(NumSizes))
fs_control_options == _get_combinations(EnumList(NumColors), EnumList(NumTypes))

\* an outcome of rand.shuffle(options): the entries at positions i and j are
\* moved to the front, the others keep their order
MoveToFront(options, i, j) ==
    LET rest == SelectSeq([k \in DOMAIN options |-> k], LAMBDA k : k # i /\ k # j)
        order == <<i, j>> \o rest
    IN  [k \in DOMAIN options |-> options[order[k]]]

\* assignments[recipient] from the three shuffled option lists
_assign_control_groups(rids, fc_shuffled, ft_shuffled, fs_shuffled) ==
    [recipient \in Range(rids) |->
        [fc_control |-> fc_shuffled[(recipient % Len(rids)) + 1],
         ft_control |-> ft_shuffled[(recipient % Len(rids)) + 1],
         fs_control |-> fs_shuffled[(recipient % Len(rids)) + 1]]]

\* ------------------------------------------------------- preference model
\* the permutations of 0 .. n-1: what shuffle(sizes) can leave
ShufflesOf(n) ==
    {p \in [0 .. (n - 1) -> 0 .. (n - 1)] : \A a, b \in 0 .. (n - 1) : p[a] = p[b] => a = b}

\* generate_map: mapping[name] = sizes[idx], where sizes is the shuffled list
\* of the enum's values and name the idx-th member of the enum
generate_map(sizes) == [name \in 0 .. (Cardinality(DOMAIN sizes) - 1) |-> sizes[name]]

\* sorted(...)[0][0]: the key of the smallest value
WorstKey(mapping) ==
    CHOOSE key \in DOMAIN mapping : \A other \in DOMAIN mapping : mapping[key] <= mapping[other]

\* sorted(items, key=value)[-1][0]: the key of the largest value
BestKey(mapping) ==
    CHOOSE key \in DOMAIN mapping : \A other \in DOMAIN mapping : mapping[other] <= mapping[key]

\* Bouquet({Flower(size=best_size, color=best_color, type=best_type): 1})
best_bouquet(cm, tm, sm) ==
    [f \in {<<BestKey(cm), BestKey(tm), BestKey(sm)>>} |-> 1]

\* ---------------------------------------------------- experiment scheduler
\* the color test made on the counter before its decrement
InColorPhaseBeforeDecrement(rt, tt) == (rt + 1) * SplitDen >= 2 * SplitNum * tt

\* the phase tests of _prepare_bouquet, remaining_turns / total_turns against
\* C_T_S_SPLIT * 2 and C_T_S_SPLIT, for total_turns > 0
InColorPhase(rt, tt) == rt * SplitDen >= 2 * SplitNum * tt

\* the type test with a strict comparison
InTypePhaseStrict(rt, tt) == rt * SplitDen > SplitNum * tt

InTypePhase(rt, tt) == rt * SplitDen >= SplitNum * tt

\* the branch of _prepare_bouquet these tests select
Phase(rt, tt) ==
    IF InColorPhase(rt, tt) THEN "color"
    ELSE IF InTypePhase(rt, tt) THEN "type"
    ELSE "size"

\* [rand.choice(list(range(options[i] + 1))) for i in ...]: one count per
\* category of the slice, each between 0 and what the table holds
DrawCounts(flower_info, slice) ==
    LET pos == {f \in slice : flower_info[f] > 0}
        top == IF pos = {} THEN 0
               ELSE flower_info[CHOOSE f \in pos : \A g \in pos : flower_info[g] <= flower_info[f]]
    IN  {[f \in slice |-> IF f \in pos THEN h[f] ELSE 0] :
            h \in {x \in [pos -> 0 .. top] : \A f \in pos : x[f] <= flower_info[f]}}

\* a table that is never decremented
DecrementForgotten(flower_info, chosen) == flower_info

\* flower_info[...] -= count, for every category of the bouquet
Decrement(flower_info, chosen) ==
    [f \in DOMAIN flower_info |->
        IF f \in DOMAIN chosen THEN flower_info[f] - chosen[f] ELSE flower_info[f]]

_generate_rand_bouquet(flower_info) ==
    LET remaining_flowers == _list_flowers(flower_info)
        num_remaining == SumValues(remaining_flowers)
    IN  {[chosen_flowers |-> chosen, exp_type |-> None,
          flower_info |-> Decrement(flower_info, chosen)] :
            chosen \in UNION {SampleWithoutReplacement(remaining_flowers, size) :
                                size \in 0 .. Min(MAX_BOUQUET_SIZE, num_remaining)}}

\* an experiment that draws from the whole table instead of the slice
ExperimentOnWholeTable(flower_info, slice, tag) ==
    IF SumOver(flower_info, Flowers) > 0
    THEN {[chosen_flowers |-> CounterOf(exp), exp_type |-> tag,
           flower_info |-> Decrement(flower_info, exp)] :
             exp \in DrawCounts(flower_info, Flowers)}
    ELSE _generate_rand_bouquet(flower_info)

\* one experiment category of _prepare_bouquet: the slice of the table, the
\* draw and the decrement, or the random bouquet when the slice is empty
Experiment(flower_info, slice, tag) ==
    IF SumOver(flower_info, slice) > 0
    THEN {[chosen_flowers |-> CounterOf(exp), exp_type |-> tag,
           flower_info |-> Decrement(flower_info, exp)] :
             exp \in DrawCounts(flower_info, slice)}
    ELSE _generate_rand_bouquet(flower_info)

\* the outcomes of _prepare_bouquet(flower_info, recipient_id), total_turns > 0;
\* chosen_flowers is kept as its Counter
_prepare_bouquet(flower_info, recipient_id, rt, tt, assignments) ==
    IF InColorPhase(rt, tt)
    THEN LET fc_control == assignments[recipient_id].fc_control
         IN  Experiment(flower_info,
                        {<<c, fc_control[1], fc_control[2]>> : c \in Colors}, "color")
    ELSE IF InTypePhase(rt, tt)
    THEN LET ft_control == assignments[recipient_id].ft_control
         IN  Experiment(flower_info,
                        {<<ft_control[1], t, ft_control[2]>> : t \in Types}, "type")
    ELSE LET fs_control == assignments[recipient_id].fs_control
         IN  Experiment(flower_info,
                        {<<fs_control[1], fs_control[2], s>> : s \in Sizes}, "size")

RECURSIVE TrainingLoop(_, _, _, _, _, _, _)
\* the loop of the training branch over recipient_ids[ind ..]: the entries of
\* bouquet_for_all_and_etype, and the table it leaves
TrainingLoop(flower_info, rids, ind, sid, rt, tt, assignments) ==
    IF ind > Len(rids) THEN {[entries |-> <<>>, flower_info |-> flower_info]}
    ELSE UNION {
        {[entries |-> <<[sender |-> sid, recipient |-> rids[ind],
                         bouquet |-> o.chosen_flowers, exp_type |-> o.exp_type]>>
                      \o rest.entries,
          flower_info |-> rest.flower_info] :
            rest \in TrainingLoop(o.flower_info, rids, ind + 1, sid, rt, tt, assignments)} :
        o \in _prepare_bouquet(flower_info, rids[ind], rt, tt, assignments)}

\* ------------------------------------------------------ feedback aggregator
\* An observation is the tuple (given, score); sent_to, sent_round, sent_tag,
\* scored_by and scored_round are history fields the code does not hold: they record
\* where the two halves of the pair came from.
Observation(sent, entry) ==
    [given |-> sent.bouquet, score |-> entry.score,
     sent_to |-> sent.recipient, sent_round |-> sent.round, sent_tag |-> sent.exp_type,
     scored_by |-> entry.from, scored_round |-> entry.round]

\* the keys of a defaultdict kept as a list of [key, obs] in insertion order
Keys(player) == {player[k].key : k \in DOMAIN player}

\* a log that has no bucket for the untagged bouquets
TouchTaggedOnly(player, experiment) ==
    IF experiment \in Keys(player) \/ experiment = None THEN player
    ELSE Append(player, [key |-> experiment, obs |-> <<>>])

\* player[experiment]: a defaultdict(list) inserts the missing key
Touch(player, experiment) ==
    IF experiment \in Keys(player) THEN player
    ELSE Append(player, [key |-> experiment, obs |-> <<>>])

\* player[experiment].append(ob)
AppendTo(player, experiment, ob) ==
    [k \in DOMAIN player |->
        IF player[k].key = experiment
        THEN [player[k] EXCEPT !.obs = Append(@, ob)]
        ELSE player[k]]

RECURSIVE UpdateLoop(_, _, _, _, _, _)
\* the loop of update_results from index i on: the experiments it leaves and
\* the exception it raises, if any
UpdateLoop(results, i, exps, lb, rids, sid) ==
    IF i >= Len(results) THEN [experiments |-> exps, err |-> None]
    ELSE IF i = sid THEN UpdateLoop(results, i + 1, exps, lb, rids, sid)
    ELSE IF i \notin DOMAIN exps THEN [experiments |-> exps, err |-> "KeyError"]
    ELSE IF lb.is_none THEN [experiments |-> exps, err |-> "TypeError"]
    ELSE LET sent == lb.entries[IndexOf(rids, i) + 1]
             touched == [exps EXCEPT ![i] = Touch(@, sent.exp_type)]
             entry == results[i + 1]
         IN  IF entry.shape # "tuple"
             THEN [experiments |-> touched, err |-> "TypeError"]
             ELSE UpdateLoop(results, i + 1,
                             [touched EXCEPT ![i] =
                                 AppendTo(@, sent.exp_type, Observation(sent, entry))],
                             lb, rids, sid)

\* an update that records nothing
update_results_skipped(fb, exps, lb, rids, sid) == [experiments |-> exps, err |-> None]

\* update_results: results = self.feedback[-1], then the loop
update_results(fb, exps, lb, rids, sid) ==
    UpdateLoop(fb[Len(fb)], 0, exps, lb, rids, sid)

\* ---------------------------------------------------- exploitation selector
RECURSIVE Concat(_, _)
\* sortedList.extend(j) for j in player.values(), from key k on
Concat(player, k) ==
    IF k > Len(player) THEN <<>> ELSE player[k].obs \o Concat(player, k + 1)

RECURSIVE SortAscending(_)
\* the sort without reverse=True: ascending, stable
SortAscending(list) ==
    IF list = <<>> THEN <<>>
    ELSE LET n == Len(list)
             sorted == SortAscending(SubSeq(list, 1, n - 1))
             x == list[n]
             before == SelectSeq(sorted, LAMBDA y : y.score <= x.score)
             after == SelectSeq(sorted, LAMBDA y : y.score > x.score)
         IN  before \o <<x>> \o after

RECURSIVE SortByScore(_)
\* sortedList.sort(key=lambda x: x[1], reverse=True): descending, stable
SortByScore(list) ==
    IF list = <<>> THEN <<>>
    ELSE LET n == Len(list)
             sorted == SortByScore(SubSeq(list, 1, n - 1))
             x == list[n]
             before == SelectSeq(sorted, LAMBDA y : y.score >= x.score)
             after == SelectSeq(sorted, LAMBDA y : y.score < x.score)
         IN  before \o <<x>> \o after

\* a search that gives up after the best-scored bouquet
FirstFeasibleTopOnly(sortedList, counts) ==
    IF sortedList # <<>> /\ able_to_create_bouquet(sortedList[1].given, counts)
    THEN 1
    ELSE 0

\* the first bouquet of the list that able_to_create_bouquet accepts: its
\* position, or 0 when there is none (canMake stays False)
FirstFeasible(sortedList, counts) ==
    IF \E k \in DOMAIN sortedList : able_to_create_bouquet(sortedList[k].given, counts)
    THEN CHOOSE k \in DOMAIN sortedList :
            /\ able_to_create_bouquet(sortedList[k].given, counts)
            /\ \A j \in 1 .. (k - 1) : ~able_to_create_bouquet(sortedList[j].given, counts)
    ELSE 0

\* the go_random block: the bouquets it can choose
RandomChoices(counts) ==
    UNION {SampleWithoutReplacement(counts, size) :
              size \in 0 .. Min(MAX_BOUQUET_SIZE, SumValues(counts))}

\* a final-round loop body without the go_random block
FinalBodyWithoutFallback(player, counts) ==
    LET sortedList == SortByScore(Concat(player, 1))
        k == FirstFeasible(sortedList, counts)
    IN  IF Len(player) # 0 /\ k # 0
        THEN {<<[bouquet |-> sortedList[k].given, exp_type |-> "logged"]>>}
        ELSE {<<>>}

\* the body of the final-round loop for one recipient: what it can append to
\* bouquet_for_all (the logged bouquet it commits to, or a random one)
FinalBody(player, counts) ==
    LET sortedList == SortByScore(Concat(player, 1))
        k == FirstFeasible(sortedList, counts)
    IN  IF Len(player) # 0 /\ k # 0
        THEN {<<[bouquet |-> sortedList[k].given, exp_type |-> "logged"]>>}
        ELSE {<<[bouquet |-> b, exp_type |-> "random"]>> : b \in RandomChoices(counts)}

RECURSIVE DecrementAll(_, _)
\* flower_counts after the bouquets appended were taken from it
DecrementAll(counts, appended) ==
    IF appended = <<>> THEN counts
    ELSE DecrementAll(Decrement(counts, Head(appended).bouquet), Tail(appended))

RECURSIVE FinalLoop(_, _, _, _, _)
\* the final-round loop over recipient_ids[ind ..]: bouquet_for_all and the
\* flower_counts it leaves
FinalLoop(counts, rids, ind, sid, exps) ==
    IF ind > Len(rids) THEN {[entries |-> <<>>, flower_counts |-> counts]}
    ELSE UNION {
        {[entries |-> [k \in DOMAIN a |->
                          [sender |-> sid, recipient |-> rids[ind],
                           bouquet |-> a[k].bouquet, exp_type |-> a[k].exp_type]]
                      \o rest.entries,
          flower_counts |-> rest.flower_counts] :
            rest \in FinalLoop(DecrementAll(counts, a), rids, ind + 1, sid, exps)} :
        a \in FinalBody(exps[rids[ind]], counts)}

\* ---------------------------------------------------------- self-evaluation
\* the per-attribute count breakdown of a bouquet (axis 1: color, 2: type,
\* 3: size): attribute value -> number of flowers
Breakdown(bouquet, axis) ==
    LET values == {f[axis] : f \in DOMAIN bouquet}
    IN  [v \in values |-> SumOver(bouquet, {f \in DOMAIN bouquet : f[axis] = v})]

\* score_colors / score_types / score_sizes: 0.0 for an empty breakdown, else
\* mean(mapping[x] for x in flatten_counter(counts)) / (3 * (len(enum) - 1)),
\* as the exact fraction <<numerator, denominator>>
ScoreAxis(counts, mapping, enum_len) ==
    IF Cardinality(DOMAIN counts) = 0 THEN <<0, 1>>
    ELSE <<SumOver([x \in DOMAIN counts |-> mapping[x] * counts[x]], DOMAIN counts),
           SumValues(counts) * (3 * (enum_len - 1))>>

score_colors(colors) == ScoreAxis(colors, color_mapping, NumColors)
score_types(types) == ScoreAxis(types, type_mapping, NumTypes)
score_sizes(sizes) == ScoreAxis(sizes, size_mapping, NumSizes)

\* a zero-score bouquet that returns the best arrangement
ZeroScoreIsBestArrangement == best_arrangement

zero_score_bouquet == EmptyBouquet

one_score_bouquet == best_arrangement

\* a self-scoring query: the bouquet's three axis scores
ScoreQuery(name, bouquet) ==
    /\ scored' = [query |-> name,
                  colors |-> score_colors(Breakdown(bouquet, 1)),
                  types |-> score_types(Breakdown(bouquet, 2)),
                  sizes |-> score_sizes(Breakdown(bouquet, 3))]
    /\ UNCHANGED <<total_turns, remaining_turns, num_suitors, suitor_id,
                   control_group_assignments, experiments, last_bouquet, feedback,
                   color_mapping, type_mapping, size_mapping, best_arrangement,
                   flower_counts, result, inventory_after, err, calls, branch,
                   how, awaiting, phase_log>>

ScoreOneBouquet == ScoreQuery("one", one_score_bouquet)

ScoreZeroBouquet == ScoreQuery("zero", zero_score_bouquet)

\* fractions
IsFraction(q, num, den) == q[1] * den = num * q[2]

SumIsOne(a, b, c) == a[1] * b[2] * c[2] + b[1] * a[2] * c[2] + c[1] * a[2] * b[2] = a[2] * b[2] * c[2]

\* ------------------------------------------------------------------ inputs
\* the categories the inventories of the model stock
StockA == <<0, 0, 0>>
StockB == <<1, 0, 0>>

\* the flower_counts a round can be given
Inventories ==
    { [f \in {StockA} |-> 1],
      [f \in {StockA, StockB} |-> IF f = StockA THEN 2 ELSE 1] }

\* the outcomes of the three rand.shuffle calls the model draws from, as
\* <<fc_control_options, ft_control_options, fs_control_options>>: the options
\* that hold the stocked categories come first or second
ControlShuffles ==
    { <<MoveToFront(fc_control_options, 1, 4), MoveToFront(ft_control_options, 1, 4),
        MoveToFront(fs_control_options, 1, 5)>>,
      <<MoveToFront(fc_control_options, 4, 1), MoveToFront(ft_control_options, 4, 1),
        MoveToFront(fs_control_options, 5, 1)>> }

\* the shuffled value lists generate_map draws from, in a game
GameShuffles(n) == {[k \in 0 .. (n - 1) |-> k]}

\* a well-formed feedback list of round r: one (rank, score) entry per suitor
\* (from and round are history fields)
WellFormed(n, sid, r) ==
    {[i \in 1 .. n |-> [shape |-> "tuple", rank |-> 1, score |-> sc[i],
                         from |-> i - 1, round |-> r]] :
        sc \in {x \in [1 .. n -> 0 .. MaxScore] : sid + 1 \in 1 .. n => x[sid + 1] = 0}}

\* a malformed one: recipient j's entry is a scalar, or the list stops before j
Malformed(n, sid, r) ==
    LET good == [i \in 1 .. n |-> [shape |-> "tuple", rank |-> 1, score |-> MaxScore,
                                    from |-> i - 1, round |-> r]]
    IN  UNION {{[good EXCEPT ![j + 1].shape = "scalar"], SubSeq(good, 1, j)} :
                  j \in Range(recipient_ids_of(n, sid))}

\* ---------------------------------------------------------------- __init__
InitWith(days, n, sid, fcs, fts, fss, cs, ts, ss) ==
    /\ total_turns = days
    /\ remaining_turns = days
    /\ num_suitors = n
    /\ suitor_id = sid
    /\ control_group_assignments =
           _assign_control_groups(recipient_ids_of(n, sid), fcs, fts, fss)
    /\ experiments = [i \in Range(recipient_ids_of(n, sid)) |-> <<>>]
    /\ last_bouquet = [is_none |-> TRUE, entries |-> <<>>]
    /\ feedback = <<>>
    /\ color_mapping = generate_map(cs)
    /\ type_mapping = generate_map(ts)
    /\ size_mapping = generate_map(ss)
    /\ best_arrangement = best_bouquet(generate_map(cs), generate_map(ts), generate_map(ss))
    /\ flower_counts = EmptyBouquet
    /\ result = <<>>
    /\ inventory_after = EmptyBouquet
    /\ err = None
    /\ calls = 0
    /\ branch = None
    /\ how = <<>>
    /\ awaiting = "prepare"
    /\ scored = [query |-> None, colors |-> <<0, 1>>, types |-> <<0, 1>>, sizes |-> <<0, 1>>]
    /\ phase_log = <<>>

Init ==
    \E days \in 0 .. MaxTurns, n \in 1 .. MaxSuitors :
    \E sid \in 0 .. (n - 1) :
    \E shuffled \in ControlShuffles :
    \E cs \in GameShuffles(NumColors), ts \in GameShuffles(NumTypes),
       ss \in GameShuffles(NumSizes) :
        /\ days * (n - 1) <= MaxBouquets
        /\ InitWith(days, n, sid, shuffled[1], shuffled[2], shuffled[3], cs, ts, ss)

\* --------------------------------------------------------- prepare_bouquets
Triples(entries) ==
    [k \in DOMAIN entries |-> [sender |-> entries[k].sender,
                               recipient |-> entries[k].recipient,
                               bouquet |-> entries[k].bouquet]]

ExpTypes(entries) == [k \in DOMAIN entries |-> entries[k].exp_type]

\* bouquet_for_all_and_etype (round is a history field)
WithRound(entries, r) ==
    [k \in DOMAIN entries |-> [sender |-> entries[k].sender,
                               recipient |-> entries[k].recipient,
                               bouquet |-> entries[k].bouquet,
                               exp_type |-> entries[k].exp_type,
                               round |-> r]]

\* the call raises: nothing is returned, the round's bookkeeping is lost
Raise(e, exps) ==
    /\ err' = e
    /\ experiments' = exps
    /\ result' = <<>>
    /\ how' = <<>>
    /\ inventory_after' = EmptyBouquet
    /\ UNCHANGED last_bouquet

FinalRound(counts) ==
    \E o \in FinalLoop(counts, recipient_ids, 1, suitor_id, experiments) :
        /\ result' = Triples(o.entries)
        /\ how' = ExpTypes(o.entries)
        /\ inventory_after' = NonZero(o.flower_counts)
        /\ err' = None
        /\ phase_log' = Append(phase_log, [round |-> calls + 1, phase |-> "final"])
        /\ UNCHANGED <<experiments, last_bouquet>>

TrainingRound(counts, rt) ==
    IF total_turns = 0 /\ Len(recipient_ids) > 0
    THEN Raise("ZeroDivisionError", experiments) /\ UNCHANGED phase_log
    ELSE \E o \in TrainingLoop(_tabularize_flowers(counts), recipient_ids, 1,
                                suitor_id, rt, total_turns, control_group_assignments) :
         LET upd == IF Len(feedback) > 0
                    THEN update_results(feedback, experiments, last_bouquet,
                                        recipient_ids, suitor_id)
                    ELSE [experiments |-> experiments, err |-> None]
             phase == IF Len(recipient_ids) > 0 THEN Phase(rt, total_turns) ELSE None
         IN  /\ phase_log' = Append(phase_log, [round |-> calls + 1, phase |-> phase])
             /\ IF upd.err # None
                THEN Raise(upd.err, upd.experiments)
                ELSE
                  /\ experiments' = upd.experiments
                  /\ last_bouquet' = [is_none |-> FALSE,
                                       entries |-> WithRound(o.entries, calls + 1)]
                  /\ result' = Triples(o.entries)
                  /\ how' = ExpTypes(o.entries)
                  /\ inventory_after' = NonZero(o.flower_info)
                  /\ err' = None

\* the test made on the counter before its decrement
IsFinalRoundBeforeDecrement(rt) == rt + 1 = 0

\* the test of the final round, on the decremented counter
IsFinalRound(rt) == rt = 0

prepare_bouquets(counts) ==
    /\ awaiting = "prepare"
    /\ err = None
    /\ calls < total_turns \/ calls < MinCalls
    /\ remaining_turns' = remaining_turns - 1
    /\ calls' = calls + 1
    /\ flower_counts' = counts
    /\ awaiting' = "feedback"
    /\ IF IsFinalRound(remaining_turns - 1)
       THEN branch' = "final" /\ FinalRound(counts)
       ELSE branch' = "training" /\ TrainingRound(counts, remaining_turns - 1)
    /\ UNCHANGED <<total_turns, num_suitors, suitor_id, control_group_assignments,
                   feedback, color_mapping, type_mapping, size_mapping,
                   best_arrangement, scored>>

PrepareBouquets == \E counts \in Inventories : prepare_bouquets(counts)

\* --------------------------------------------------------- receive_feedback
receive_feedback(fb) ==
    /\ awaiting = "feedback"
    /\ err = None
    /\ calls < total_turns \/ calls < MinCalls
    /\ feedback' = Append(feedback, fb)
    /\ awaiting' = "prepare"
    /\ UNCHANGED <<total_turns, remaining_turns, num_suitors, suitor_id,
                   control_group_assignments, experiments, last_bouquet,
                   color_mapping, type_mapping, size_mapping, best_arrangement,
                   flower_counts, result, inventory_after, err, calls, branch,
                   how, scored, phase_log>>

ReceiveFeedback == \E fb \in WellFormed(num_suitors, suitor_id, calls) : receive_feedback(fb)

ReceiveMalformedFeedback ==
    \E fb \in Malformed(num_suitors, suitor_id, calls) : receive_feedback(fb)

\* the preference model of every shuffle, in a one-day game of one suitor
InitScore ==
    \E cs \in ShufflesOf(NumColors), ts \in ShufflesOf(NumTypes), ss \in ShufflesOf(NumSizes) :
        InitWith(1, 1, 0, MoveToFront(fc_control_options, 1, 4),
                 MoveToFront(ft_control_options, 1, 4),
                 MoveToFront(fs_control_options, 1, 5), cs, ts, ss)

NextScore == ScoreOneBouquet \/ ScoreZeroBouquet

SpecScore == InitScore /\ [][NextScore]_vars

\* ------------------------------------------------- the tabulation round trip
\* a flower_counts value is at most MaxCount
MaxCount == 2

\* the categories the tabulated mappings are keyed by
TabulatedKeys == {<<0, 0, 0>>, <<1, 0, 0>>, <<2, 1, 1>>, <<5, 3, 2>>}

\* the flower_counts mappings: any of the keys, zero counts included
FlowerCounts == UNION {[keys -> 0 .. MaxCount] : keys \in SUBSET TabulatedKeys}

\* _list_flowers(_tabularize_flowers(flower_counts)) of a mapping
ListTabulated ==
    \E counts \in FlowerCounts :
        /\ flower_counts' = counts
        /\ inventory_after' = _list_flowers(_tabularize_flowers(counts))
        /\ branch' = "tabulated"
        /\ UNCHANGED <<total_turns, remaining_turns, num_suitors, suitor_id,
                       control_group_assignments, experiments, last_bouquet, feedback,
                       color_mapping, type_mapping, size_mapping, best_arrangement,
                       result, err, calls, how, awaiting, scored, phase_log>>

InitTabulate ==
    \E cs \in GameShuffles(NumColors), ts \in GameShuffles(NumTypes),
       ss \in GameShuffles(NumSizes) :
        InitWith(1, 1, 0, MoveToFront(fc_control_options, 1, 4),
                 MoveToFront(ft_control_options, 1, 4),
                 MoveToFront(fs_control_options, 1, 5), cs, ts, ss)

NextTabulate == ListTabulated

SpecTabulate == InitTabulate /\ [][NextTabulate]_vars

\* a game of four days among three suitors, seen from suitor 0: the shortest
\* game in which two recipients have logs of two observations each
InitLongGame ==
    \E shuffled \in {sh \in ControlShuffles : sh[1][1] = fc_control_options[1]} :
    \E cs \in GameShuffles(NumColors), ts \in GameShuffles(NumTypes),
       ss \in GameShuffles(NumSizes) :
        InitWith(4, 3, 0, shuffled[1], shuffled[2], shuffled[3], cs, ts, ss)

Next == PrepareBouquets \/ ReceiveFeedback \/ ReceiveMalformedFeedback

Spec == Init /\ [][Next]_vars

\* the feedback lists of the long game: any well-formed list after the rounds
\* whose feedback a later training call logs, the all-zero list after the last
\* training round, whose feedback no later call reads
LongGameFeedback(n, sid, r, tt) ==
    {fb \in WellFormed(n, sid, r) : r = tt - 1 => \A i \in DOMAIN fb : fb[i].score = 0}

ReceiveLongGameFeedback ==
    \E fb \in LongGameFeedback(num_suitors, suitor_id, calls, total_turns) :
        receive_feedback(fb)

NextLongGame == PrepareBouquets \/ ReceiveLongGameFeedback

SpecLongGame == InitLongGame /\ [][NextLongGame]_vars

\* ================================================================== claims
\* the calls made so far belong to the game, and every feedback list received
\* had one (rank, score) entry per suitor
InGame == calls >= 1 /\ calls <= total_turns

IsWellFormed(fb) ==
    /\ Len(fb) = num_suitors
    /\ \A i \in DOMAIN fb : fb[i].shape = "tuple"

WellFormedSoFar == \A r \in DOMAIN feedback : IsWellFormed(feedback[r])

\* the number of flowers of category f in the bouquets result[1 .. k]
RECURSIVE Allocated(_, _)
Allocated(f, k) ==
    IF k = 0 THEN 0 ELSE CountIn(result[k].bouquet, f) + Allocated(f, k - 1)

\* the categories the last call was given or gave away
Touched == DOMAIN flower_counts \cup UNION {DOMAIN result[k].bouquet : k \in DOMAIN result}

\* C1: every bouquet returned by prepare_bouquets holds at most
\* MAX_BOUQUET_SIZE flowers, in training rounds and in the final round.
C1_BouquetWithinCap ==
    \A k \in DOMAIN result : SumValues(result[k].bouquet) <= MAX_BOUQUET_SIZE

\* C2: per category, the bouquets returned by one call hold no more flowers
\* than the flower_counts of the round, and the count table the call leaves
\* is what was given minus what was handed out, nowhere negative.
C2_NoOverAllocation ==
    /\ \A f \in Touched : Allocated(f, Len(result)) <= CountIn(flower_counts, f)
    /\ \A f \in DOMAIN inventory_after : inventory_after[f] > 0
    /\ err = None =>
          \A f \in Touched :
              CountIn(inventory_after, f) = CountIn(flower_counts, f) - Allocated(f, Len(result))

\* C2 witness: a final round that served one recipient from its log and the
\* next one at random, both with flowers
C2_Witness ==
    /\ branch = "final"
    /\ how = <<"logged", "random">>
    /\ \A k \in DOMAIN result : SumValues(result[k].bouquet) > 0

\* C3: a call of a round of the game returns one (sender, recipient, bouquet)
\* entry per other suitor: num_suitors - 1 entries in increasing recipient
\* order, each sent by the agent, none to itself, no recipient skipped.
C3_OneEntryPerRecipient ==
    (InGame /\ WellFormedSoFar) =>
        /\ err = None
        /\ Len(result) = num_suitors - 1
        /\ {result[k].recipient : k \in DOMAIN result} = (0 .. (num_suitors - 1)) \ {suitor_id}
        /\ \A k \in DOMAIN result : result[k].sender = suitor_id
        /\ \A j, k \in DOMAIN result : j < k => result[j].recipient < result[k].recipient

\* C3 witness: a final round of two recipients in which a recipient with a
\* logged bouquet could not be given any of them
C3_Witness ==
    /\ branch = "final"
    /\ Len(result) = 2
    /\ \E k \in DOMAIN result :
          /\ how[k] = "random"
          /\ Len(experiments[result[k].recipient]) # 0

\* the one-score query was answered for a preference model
Asked(name) == scored.query = name

\* C4, as claimed: the one-score bouquet scores exactly 1 on every axis.
C4_OneScoreIsOnePerAxis ==
    Asked("one") =>
        /\ IsFraction(scored.colors, 1, 1)
        /\ IsFraction(scored.types, 1, 1)
        /\ IsFraction(scored.sizes, 1, 1)

\* C4, amended: the one-score bouquet scores exactly 1/3 on every axis, so
\* that the three axis scores add up to exactly 1.
C4_OneScoreIsThirdPerAxis ==
    Asked("one") =>
        /\ IsFraction(scored.colors, 1, 3)
        /\ IsFraction(scored.types, 1, 3)
        /\ IsFraction(scored.sizes, 1, 3)
        /\ SumIsOne(scored.colors, scored.types, scored.sizes)

\* C4 witness: the query answered for a mapping whose best values are not the
\* last members of the enums
C4_Witness ==
    /\ Asked("one")
    /\ best_arrangement = [f \in {<<2, 0, 1>>} |-> 1]

\* C5: the zero-score bouquet scores exactly 0 on every axis.
C5_ZeroScoreIsZero ==
    Asked("zero") =>
        /\ IsFraction(scored.colors, 0, 1)
        /\ IsFraction(scored.types, 0, 1)
        /\ IsFraction(scored.sizes, 0, 1)

\* C5 witness: the zero-score query answered for a mapping that gives the
\* first member of every enum a positive weight
C5_Witness ==
    /\ Asked("zero")
    /\ color_mapping[0] > 0 /\ type_mapping[0] > 0 /\ size_mapping[0] > 0

\* C6: a call takes the final-round branch exactly when it is the
\* total_turns-th call: every earlier call trains, and so does any later one.
C6_FinalExactlyOnLastTurn ==
    calls >= 1 => (branch = "final" <=> calls = total_turns)

\* C6 witness: the final branch taken after at least two training rounds
C6_Witness ==
    /\ branch = "final"
    /\ calls = total_turns
    /\ total_turns >= 3
    /\ ~last_bouquet.is_none

\* the observations of a log, by position <<key index, index in the key's list>>
Positions(player) == {<<a, j>> : a \in DOMAIN player, j \in 1 .. MaxTurns} \cap
                     UNION {{<<a, j>> : j \in DOMAIN player[a].obs} : a \in DOMAIN player}

ObsAt(player, p) == player[p[1]].obs[p[2]]

\* log order of the merged list: key by key, each key's list in order
Earlier(p, q) == p[1] < q[1] \/ (p[1] = q[1] /\ p[2] < q[2])

\* bouquet b can be made from what result[1 .. k-1] left of flower_counts
FeasibleFor(b, k) ==
    \A f \in DOMAIN b :
        /\ f \in DOMAIN flower_counts
        /\ b[f] <= flower_counts[f] - Allocated(f, k - 1)

\* C7: on the final round a recipient with a logged bouquet that can be made
\* from what the earlier recipients left gets the feasible logged bouquet of
\* the highest score, the earliest in log order among equal scores, and the
\* inventory left is what was given minus the bouquets sent.
C7_BestFeasibleLogged ==
    (branch = "final" /\ err = None) =>
        /\ \A k \in DOMAIN result :
            LET player == experiments[result[k].recipient]
                feasible == {p \in Positions(player) : FeasibleFor(ObsAt(player, p).given, k)}
            IN  feasible # {} =>
                  /\ how[k] = "logged"
                  /\ \E p \in feasible :
                        /\ result[k].bouquet = ObsAt(player, p).given
                        /\ \A q \in feasible :
                              /\ ObsAt(player, q).score <= ObsAt(player, p).score
                              /\ ObsAt(player, q).score = ObsAt(player, p).score => ~Earlier(q, p)
        /\ \A f \in Touched :
              CountIn(inventory_after, f) = CountIn(flower_counts, f) - Allocated(f, Len(result))

\* C7 witness: the best-scored logged bouquet cannot be made and a logged
\* bouquet of a lower score is sent
C7_Witness ==
    /\ branch = "final"
    /\ \E k \in DOMAIN result :
        LET player == experiments[result[k].recipient]
        IN  \E p, q \in Positions(player) :
              /\ ObsAt(player, p).score > ObsAt(player, q).score
              /\ ~FeasibleFor(ObsAt(player, p).given, k)
              /\ FeasibleFor(ObsAt(player, q).given, k)
              /\ how[k] = "logged"
              /\ result[k].bouquet = ObsAt(player, q).given

\* C8: with total_turns 0 or 1 every call returns a result and none raises.
C8_DegenerateNeverRaises ==
    (total_turns <= 1 /\ calls >= 1) => err = None

\* the feedback list the last call found at self.feedback[-1]
LastFeedback == feedback[Len(feedback)]

\* C9: a round whose previous feedback is malformed for some recipient still
\* completes: the call does not raise.
C9_MalformedFeedbackSkipped ==
    (InGame /\ awaiting = "feedback" /\ branch = "training" /\ Len(feedback) > 0
        /\ ~IsWellFormed(LastFeedback)) => err = None

\* C10: every observation in recipient i's log pairs the bouquet sent to i in
\* some round with the score i returned for that round, under the experiment
\* category the bouquet was tagged with.
C10_ObservationPairsSameRound ==
    \A i \in DOMAIN experiments :
        \A p \in Positions(experiments[i]) :
            LET ob == ObsAt(experiments[i], p)
            IN  /\ ob.sent_to = i
                /\ ob.scored_by = i
                /\ ob.sent_round = ob.scored_round
                /\ ob.sent_tag = experiments[i][p[1]].key

\* C10 witness: the two recipients of a game of three suitors each have an
\* observation of round 1, of different bouquets and different scores
C10_Witness ==
    /\ Cardinality(DOMAIN experiments) = 2
    /\ \E i, j \in DOMAIN experiments :
        \E p \in Positions(experiments[i]), q \in Positions(experiments[j]) :
            /\ i # j
            /\ ObsAt(experiments[i], p).sent_round = 1
            /\ ObsAt(experiments[j], q).sent_round = 1
            /\ ObsAt(experiments[i], p).given # ObsAt(experiments[j], q).given
            /\ ObsAt(experiments[i], p).score # ObsAt(experiments[j], q).score


\* the phase the turn counter of a training round stands for: color from 2/3
\* of the game left, type from 1/3, size below
ClaimedPhase(rt, tt) ==
    IF 3 * rt >= 2 * tt THEN "color" ELSE IF 3 * rt >= tt THEN "type" ELSE "size"

PhaseRank(p) ==
    CASE p = "color" -> 1 [] p = "type" -> 2 [] p = "size" -> 3 [] p = "final" -> 4

\* the rounds of the game played so far, in a game with recipients
RoundsPlayed ==
    IF Len(recipient_ids) > 0 /\ total_turns >= 1
    THEN {k \in DOMAIN phase_log : k <= total_turns}
    ELSE {}

\* C14: the phase of a round is fixed by the turn counter after the round's
\* decrement (color from 2/3 of the turns left, type in [1/3, 2/3), size
\* below, final at 0); a later round is never in an earlier phase; every
\* tagged bouquet of a training round carries the round's phase; with
\* total_turns = 3 round 1 is a color round and round 3 the final round.
C14_PhaseFollowsTurnCounter ==
    /\ \A k \in RoundsPlayed :
          /\ phase_log[k].round = k
          /\ phase_log[k].phase = IF total_turns - k = 0 THEN "final"
                                  ELSE ClaimedPhase(total_turns - k, total_turns)
    /\ \A j, k \in RoundsPlayed :
          j < k => PhaseRank(phase_log[j].phase) <= PhaseRank(phase_log[k].phase)
    /\ (branch = "training" /\ calls \in RoundsPlayed) =>
          \A k \in DOMAIN how : how[k] \in {None, phase_log[calls].phase}
    /\ (total_turns = 3 /\ 1 \in RoundsPlayed) => phase_log[1].phase = "color"
    /\ (total_turns = 3 /\ 3 \in RoundsPlayed) => phase_log[3].phase = "final"

\* C14 witness: a game of three rounds played to its final round, whose
\* logs hold a color-tagged bouquet with flowers
C14_Witness ==
    /\ total_turns = 3
    /\ RoundsPlayed = {1, 2, 3}
    /\ branch = "final"
    /\ \E i \in DOMAIN experiments :
          \E p \in Positions(experiments[i]) :
              /\ ObsAt(experiments[i], p).sent_tag = "color"
              /\ SumValues(ObsAt(experiments[i], p).given) > 0

\* the phases of the training rounds played so far
PhasesSeen == {phase_log[k].phase : k \in RoundsPlayed} \ {"final"}

\* C19: a game of four rounds or more has entered the color, the type and
\* the size phase by the time of its final round; a game of two or three
\* rounds never enters the size phase, and one of two rounds never enters the
\* color phase either.
C19_PhasesEntered ==
    /\ (branch = "final" /\ calls = total_turns /\ total_turns >= 4
            /\ Len(recipient_ids) > 0) =>
          {"color", "type", "size"} \subseteq PhasesSeen
    /\ total_turns \in {2, 3} => "size" \notin PhasesSeen
    /\ total_turns = 2 => "color" \notin PhasesSeen

\* C19 witness: the final round of a game of four rounds whose last training
\* round sent a size-tagged bouquet with flowers
C19_Witness ==
    /\ branch = "final"
    /\ total_turns >= 4
    /\ calls = total_turns
    /\ \E k \in DOMAIN last_bouquet.entries :
          /\ last_bouquet.entries[k].exp_type = "size"
          /\ SumValues(last_bouquet.entries[k].bouquet) > 0


\* the observations of a log that come from round r
OfRound(player, r) == {p \in Positions(player) : ObsAt(player, p).sent_round = r}

\* C11: the training call that follows a round whose bouquets were sent with
\* well-formed feedback does not raise and logs, for every recipient, the one
\* observation of that round with the score the recipient returned; the
\* observation of a bouquet sent without an experiment category (the random
\* fallback) goes to the untagged bucket and to no other.
C11_UntaggedBouquetLogged ==
    (branch = "training" /\ awaiting = "feedback" /\ calls >= 2 /\ InGame
        /\ WellFormedSoFar) =>
        /\ err = None
        /\ \A i \in DOMAIN experiments :
              LET player == experiments[i]
              IN  /\ Cardinality(OfRound(player, calls - 1)) = 1
                  /\ \A p \in OfRound(player, calls - 1) :
                        /\ ObsAt(player, p).score = LastFeedback[i + 1].score
                        /\ ObsAt(player, p).sent_tag = None <=> player[p[1]].key = None

\* C11 witness: the feedback of a round that sent a recipient a random
\* bouquet with flowers has been processed
C11_Witness ==
    /\ branch = "training" /\ awaiting = "feedback" /\ calls >= 2 /\ err = None
    /\ \E i \in DOMAIN experiments :
          \E p \in OfRound(experiments[i], calls - 1) :
              /\ ObsAt(experiments[i], p).sent_tag = None
              /\ experiments[i][p[1]].key = None
              /\ SumValues(ObsAt(experiments[i], p).given) > 0

\* C15: when a round after the first has chosen its bouquets, the final round
\* included, every recipient's log holds the observation of every earlier
\* round.
C15_FeedbackLoggedBeforeChoice ==
    (awaiting = "feedback" /\ calls >= 2 /\ InGame /\ WellFormedSoFar /\ err = None) =>
        \A i \in DOMAIN experiments :
            \A r \in 1 .. (calls - 1) : OfRound(experiments[i], r) # {}

\* the attributes a tagged bouquet holds constant, and the recipient's pair
HeldAttributes(f, tag) ==
    CASE tag = "color" -> <<f[2], f[3]>>
      [] tag = "type" -> <<f[1], f[3]>>
      [] tag = "size" -> <<f[1], f[2]>>

ControlOf(i, tag) ==
    CASE tag = "color" -> control_group_assignments[i].fc_control
      [] tag = "type" -> control_group_assignments[i].ft_control
      [] tag = "size" -> control_group_assignments[i].fs_control

KeepsControl(i, tag, bouquet) ==
    tag \in {"color", "type", "size"} =>
        \A f \in DOMAIN bouquet : HeldAttributes(f, tag) = ControlOf(i, tag)

\* every tagged bouquet sent so far, logged or awaiting its feedback, holds
\* the recipient's control pair of its category
TaggedBouquetsKeepControl ==
    /\ \A k \in DOMAIN last_bouquet.entries :
          KeepsControl(last_bouquet.entries[k].recipient, last_bouquet.entries[k].exp_type,
                       last_bouquet.entries[k].bouquet)
    /\ \A i \in DOMAIN experiments :
          \A p \in Positions(experiments[i]) :
              KeepsControl(i, ObsAt(experiments[i], p).sent_tag, ObsAt(experiments[i], p).given)

\* C17: across the rounds of a game every bouquet tagged with a category has
\* only flowers whose two other attributes are the recipient's control pair
\* of that category, and the control pairs assigned at initialization are
\* never reassigned.
C17_ControlsHeldForTheGame ==
    /\ []TaggedBouquetsKeepControl
    /\ [][control_group_assignments' = control_group_assignments]_vars

\* C17 witness: a recipient has a logged color-tagged bouquet and was then
\* sent a type-tagged one, both with flowers
C17_Witness ==
    \E k \in DOMAIN last_bouquet.entries :
        LET e == last_bouquet.entries[k]
        IN  /\ e.exp_type = "type"
            /\ SumValues(e.bouquet) > 0
            /\ \E p \in Positions(experiments[e.recipient]) :
                  /\ ObsAt(experiments[e.recipient], p).sent_tag = "color"
                  /\ SumValues(ObsAt(experiments[e.recipient], p).given) > 0

\* C18: with well-formed feedback after every round, when the final round
\* runs every recipient's log holds max(0, total_turns - 2) observations;
\* with total_turns <= 2 the logs are empty and every recipient is served at
\* random.
C18_LogSizeAtFinalRound ==
    (branch = "final" /\ calls = total_turns /\ WellFormedSoFar) =>
        /\ \A i \in DOMAIN experiments :
              Cardinality(Positions(experiments[i])) =
                  IF total_turns >= 2 THEN total_turns - 2 ELSE 0
        /\ total_turns <= 2 =>
              /\ \A i \in DOMAIN experiments : Len(experiments[i]) = 0
              /\ \A k \in DOMAIN how : how[k] = "random"

\* C18 witness: the final round of a game of four rounds, two observations
\* in the log of a recipient, none of them of round 3
C18_Witness ==
    /\ branch = "final" /\ calls = total_turns /\ total_turns = 4
    /\ \E i \in DOMAIN experiments :
          /\ Cardinality(Positions(experiments[i])) = 2
          /\ OfRound(experiments[i], 3) = {}


\* C12: _list_flowers(_tabularize_flowers(flower_counts)) has exactly the
\* categories of flower_counts whose count is positive, each with the same
\* count: the zero counts are omitted and no category is added.
C12_TabulationRoundTrip ==
    branch = "tabulated" =>
        /\ DOMAIN inventory_after = {f \in DOMAIN flower_counts : flower_counts[f] > 0}
        /\ \A f \in DOMAIN inventory_after : inventory_after[f] = flower_counts[f]

\* C12 witness: a mapping with a zero count and two different positive
\* counts went through the round trip
C12_Witness ==
    /\ branch = "tabulated"
    /\ \E f, g, h \in DOMAIN flower_counts :
          /\ flower_counts[f] = 0
          /\ flower_counts[g] = 1 /\ CountIn(inventory_after, g) = 1
          /\ flower_counts[h] = 2 /\ CountIn(inventory_after, h) = 2


\* C16: with two recipients or more, any two distinct recipients have
\* different round-robin indexes, hence different control pairs in each of
\* fc_control, ft_control and fs_control.
C16_DistinctControlsPerRecipient ==
    Len(recipient_ids) >= 2 =>
        \A i, j \in DOMAIN control_group_assignments :
            i # j =>
                /\ i % Len(recipient_ids) # j % Len(recipient_ids)
                /\ control_group_assignments[i].fc_control # control_group_assignments[j].fc_control
                /\ control_group_assignments[i].ft_control # control_group_assignments[j].ft_control
                /\ control_group_assignments[i].fs_control # control_group_assignments[j].fs_control


\* the logged bouquets of the highest score in a log
TopBouquets(player) ==
    {ObsAt(player, p).given : p \in {q \in Positions(player) :
        \A o \in Positions(player) : ObsAt(player, o).score <= ObsAt(player, q).score}}

\* on the final round recipients result[j] and result[k] share a top-scoring
\* logged bouquet, j was served it, and what is left when k is served cannot
\* supply it again
SharedTopBouquetRunsOut(j, k) ==
    /\ branch = "final"
    /\ j < k
    /\ how[j] = "logged"
    /\ result[j].bouquet \in TopBouquets(experiments[result[j].recipient])
    /\ result[j].bouquet \in TopBouquets(experiments[result[k].recipient])
    /\ ~FeasibleFor(result[j].bouquet, k)

\* C13, as claimed: the second of two recipients whose shared top-scoring
\* bouquet cannot be supplied twice falls back to a random bouquet drawn from
\* the remaining inventory, and the call does not raise.
C13_SecondFallsBackToRandom ==
    \A j, k \in DOMAIN result :
        SharedTopBouquetRunsOut(j, k) =>
            /\ err = None
            /\ how[k] = "random"
            /\ FeasibleFor(result[k].bouquet, k)

\* C13, amended: the second recipient is given the highest-scoring of its
\* other logged bouquets that the remaining inventory can supply, and falls
\* back to a random bouquet from the remaining inventory only when it can
\* supply none of them; the call does not raise and serves every recipient.
C13_SecondGetsNextFeasibleOrRandom ==
    \A j, k \in DOMAIN result :
        SharedTopBouquetRunsOut(j, k) =>
            LET player == experiments[result[k].recipient]
                feasible == {p \in Positions(player) : FeasibleFor(ObsAt(player, p).given, k)}
            IN  /\ err = None
                /\ Len(result) = num_suitors - 1
                /\ FeasibleFor(result[k].bouquet, k)
                /\ IF feasible = {}
                   THEN how[k] = "random"
                   ELSE /\ how[k] = "logged"
                        /\ \E p \in feasible :
                              /\ result[k].bouquet = ObsAt(player, p).given
                              /\ \A q \in feasible :
                                    ObsAt(player, q).score <= ObsAt(player, p).score

\* C13 witness: the second recipient has two logged bouquets, none of which
\* the remaining inventory can supply, and is served at random
C13_Witness ==
    \E j, k \in DOMAIN result :
        /\ SharedTopBouquetRunsOut(j, k)
        /\ how[k] = "random"
        /\ Cardinality(Positions(experiments[result[k].recipient])) = 2

====
